---- MODULE Spec2Model ----
(***************************************************************************)
(* Model of the vehicle trip sheet tracker (src/main.py): the trips table, *)
(* the two-phase trip entry (Submit Start KM / Submit End KM), the admin   *)
(* edit/delete block and the trip data download.                           *)
(*                                                                         *)
(* A Streamlit session runs the script top to bottom on every interaction: *)
(* the run first reads vehicle_data (the SELECT of lines 91-92) and then,  *)
(* if the button that was pressed is rendered in this run, writes.  With   *)
(* one session the read and the write of a run are one step (Spec, and     *)
(* SpecExport with the download); with two sessions the runs interleave    *)
(* between the read and the write (SpecConc, and SpecConcAdmin with an     *)
(* admin updating entries in the second session).                          *)
(*                                                                         *)
(* Every run starts with auto_backup_and_cleanup (line 58), which works on  *)
(* the backup directory and the clock.  In Spec, SpecExport and SpecConc   *)
(* the clock stands still, so the first run leaves the day's backup and    *)
(* later runs find it; SpecBackup lets the clock run, between the clock    *)
(* reads of one run too, and adds the manual backup and the upload.        *)
(***************************************************************************)
EXTENDS Integers, Sequences, FiniteSets, TLC

\* ------------------------------------------------------------- bounds
\* Number of INSERTs: AUTOINCREMENT ids run 1..MaxId.
MaxId == 2
\* The clock runs from day 1 to day MaxDay.
MaxDay == 4
\* The admin adds a file (manual backup, upload) while BACKUP_DIR holds fewer
\* than MaxFiles files; the automatic backup is not limited.
MaxFiles == 2

\* ---------------------------------------------------------- constants
\* Two of the four entries of VEHICLE_LIST (the code treats all alike).
VEHICLE_LIST == {"Ertiga", "XL6"}
\* Two calendar days a trip date is picked from.
TripDates == {1, 2}
\* Odometer readings typed into "Enter Start KM" / "New Start KM"
\* (number_input(min_value=0, step=1)): a sample of the naturals.
StartKmInputs == {0, 1}
\* Odometer readings typed into "Enter End KM" / "New End KM": against the
\* starts 0 and 1 the sample holds an end equal to the start (0, 0), below it
\* (1, 0), right at min_value = start + 1 (1, 2) and further above (0, 2).
EndKmInputs == {0, 2}
\* Texts typed into a remark field.
Remarks == {"", "Sunday"}
\* The admin password of line 74, and one that is not it.
AdminPassword == "RVPL@123"
Passwords == {AdminPassword, "guess"}
\* Browser sessions; Spec runs only session "A".
Sessions == {"A", "B"}
\* The minutes of a day the clock shows: 0 for the first (00:00), 1 for the
\* last (23:59).
Minutes == {0, 1}
\* retention: timedelta(days=3)
RetentionDays == 3

\* A nullable INTEGER column: NULL, or a one-element tuple holding the value.
NULL == <<>>
Int1(n) == <<n>>
IsNull(x) == x = NULL
Val(x) == x[1]

\* --------------------------------------------------------------- state
VARIABLES
    trips,            \* the rows of table trips
    sqlite_seq,       \* the largest id AUTOINCREMENT has handed out
    admin_logged_in,  \* st.session_state.admin_logged_in, per session
    vehicle_data,     \* per session: the frame read by the run in progress
    download,         \* what the last "Download Trip Data" produced
    backup_dir,       \* the files of BACKUP_DIR
    clock             \* datetime.now(): [day, hhmm]

vars == <<trips, sqlite_seq, admin_logged_in, vehicle_data, download,
          backup_dir, clock>>

\* No script run is between its read and its write.
NoRun == [run |-> FALSE]
\* Nothing has been downloaded yet.
NoDownload == [kind |-> "none"]

\* ------------------------------------------------------- SQL and pandas
\* The rows of a set, as a sequence in descending id order (ORDER BY id DESC).
RECURSIVE OrderByIdDesc(_)
OrderByIdDesc(S) ==
    IF S = {} THEN <<>>
    ELSE LET m == CHOOSE r \in S : \A q \in S : q.id <= r.id
         IN <<m>> \o OrderByIdDesc(S \ {m})

\* The rows of a set, as a sequence in ascending id (rowid) order: the order of
\* a table scan with no ORDER BY.
RECURSIVE OrderByRowid(_)
OrderByRowid(S) ==
    IF S = {} THEN <<>>
    ELSE LET m == CHOOSE r \in S : \A q \in S : r.id <= q.id
         IN <<m>> \o OrderByRowid(S \ {m})

\* A cell of a frame column read by pd.read_sql: a column whose values are all
\* NULL stays an object column of None; a column mixing numbers and NULL
\* becomes float64 and its NULLs become NaN.
FrameCell(x, allNull) ==
    IF IsNull(x) THEN (IF allNull THEN [tag |-> "None"] ELSE [tag |-> "NaN"])
    ELSE [tag |-> "num", val |-> Val(x)]

\* Python's "x is not None" on a frame cell.
IsNotNone(c) == c.tag # "None"

\* pd.read_sql of "SELECT * FROM trips WHERE vehicle=? AND trip_date=?
\* ORDER BY id DESC": the columns the trip entry code reads.
ReadVehicleData(T, vehicle_no, trip_date) ==
    LET sel == {r \in T : r.vehicle = vehicle_no /\ r.trip_date = trip_date}
        ord == OrderByIdDesc(sel)
        startAllNull == \A r \in sel : IsNull(r.start_km)
        endAllNull == \A r \in sel : IsNull(r.end_km)
    IN [run |-> TRUE, vehicle_no |-> vehicle_no, trip_date |-> trip_date,
        rows |-> [i \in 1..Len(ord) |->
                    [id |-> ord[i].id,
                     start_km |-> FrameCell(ord[i].start_km, startAllNull),
                     end_km |-> FrameCell(ord[i].end_km, endAllNull)]]]

\* vehicle_data.empty
Empty(vd) == Len(vd.rows) = 0
\* vehicle_data.iloc[-1]: the last row of the frame.
Iloc_1(vd) == vd.rows[Len(vd.rows)]

\* Mutant of existing_start: a start counts only while its end is missing.
ExistingStartWhileOpen(vd) ==
    ~Empty(vd) /\ IsNotNone(Iloc_1(vd).start_km) /\ ~IsNotNone(Iloc_1(vd).end_km)
existing_start(vd) == ~Empty(vd) /\ IsNotNone(Iloc_1(vd).start_km)
existing_end(vd) == ~Empty(vd) /\ IsNotNone(Iloc_1(vd).end_km)

\* The three branches of "Add Trip Entry".
FullyRecordedBranch(vd) == existing_start(vd) /\ existing_end(vd)
\* Mutant of StartBranch: the start is offered unless the last row is open.
StartBranchUnlessOpen(vd) == ~(existing_start(vd) /\ ~existing_end(vd))
\* Mutant of StartBranch: a plain "else" in place of "elif not existing_start".
StartBranchElse(vd) == ~FullyRecordedBranch(vd)
StartBranch(vd) == ~FullyRecordedBranch(vd) /\ ~existing_start(vd)
EndBranch(vd) ==
    /\ ~FullyRecordedBranch(vd)
    /\ existing_start(vd)
    /\ existing_start(vd) /\ ~existing_end(vd)

\* SUM(km_travelled) over a set of rows: NULL when no row has a value.
RECURSIVE SqlSum(_)
SqlSum(S) ==
    LET vals == {r \in S : ~IsNull(r.km_travelled)}
    IN IF vals = {} THEN NULL
       ELSE LET r == CHOOSE q \in vals : TRUE
                rest == SqlSum(vals \ {r})
            IN Int1(Val(r.km_travelled) + (IF IsNull(rest) THEN 0 ELSE Val(rest)))

\* total_km: SUM(km_travelled) of the vehicle, "or 0".
total_km(T, vehicle_no) ==
    LET total == SqlSum({r \in T : r.vehicle = vehicle_no})
    IN IF IsNull(total) \/ Val(total) = 0 THEN 0 ELSE Val(total)

\* Mutant of InsertTrip: VALUES (?, ?, ?, ?, 0, 0, ?).
InsertTripZeroEnd(T, id, dt_now, vehicle_no, trip_date, start_km, remark) ==
    T \cup {[id |-> id, datetime |-> dt_now,
             vehicle |-> vehicle_no, trip_date |-> trip_date,
             start_km |-> Int1(start_km), end_km |-> Int1(0),
             km_travelled |-> Int1(0), remark |-> remark]}
\* INSERT INTO trips (...) VALUES (?, ?, ?, ?, NULL, NULL, ?)
InsertTrip(T, id, dt_now, vehicle_no, trip_date, start_km, remark) ==
    T \cup {[id |-> id, datetime |-> dt_now,
             vehicle |-> vehicle_no, trip_date |-> trip_date,
             start_km |-> Int1(start_km), end_km |-> NULL,
             km_travelled |-> NULL, remark |-> remark]}

\* Mutant of EndKmMin: min_value=int(start_km_value), without the + 1.
EndKmMinIsStart(start_km_value) == start_km_value
\* min_value of the "Enter End KM" number_input.
EndKmMin(start_km_value) == start_km_value + 1

\* Mutant of KmTravelled: the start is not subtracted.
KmTravelledIsEnd(end_km, start_km_value) == end_km
\* km_travelled = int(end_km) - int(start_km_value)
KmTravelled(end_km, start_km_value) == end_km - start_km_value

\* UPDATE trips SET end_km=?, km_travelled=? WHERE id=?
UpdateEnd(T, row_id, end_km, km_travelled) ==
    {IF r.id = row_id
        THEN [r EXCEPT !.end_km = Int1(end_km), !.km_travelled = Int1(km_travelled)]
        ELSE r : r \in T}

\* Mutant of NewKm: a negative distance is clamped to zero.
NewKmClamped(new_start, new_end) == IF new_end > new_start THEN new_end - new_start ELSE 0
\* Mutant of NewKm: the operands swapped.
NewKmSwapped(new_start, new_end) == new_start - new_end
\* new_km = new_end - new_start
NewKm(new_start, new_end) == new_end - new_start

\* UPDATE trips SET start_km=?, end_km=?, km_travelled=?, remark=? WHERE id=?
UpdateEntry(T, edit_id, new_start, new_end, new_km, new_remark) ==
    {IF r.id = edit_id
        THEN [r EXCEPT !.start_km = Int1(new_start), !.end_km = Int1(new_end),
                       !.km_travelled = Int1(new_km), !.remark = new_remark]
        ELSE r : r \in T}

\* Mutant of DeleteEntry: WHERE id<=?
DeleteEntryUpTo(T, edit_id) == {r \in T : r.id > edit_id}
\* DELETE FROM trips WHERE id=?
DeleteEntry(T, edit_id) == {r \in T : r.id # edit_id}

\* ------------------------------------------------ backups and the clock
\* Instant a is before instant b.
Before(a, b) == a.day < b.day \/ (a.day = b.day /\ a.hhmm < b.hhmm)

\* strftime("%Y-%m-%d_%H%M") in a file name: the day and the minute.
BackupName(prefix, timestamp) ==
    [prefix |-> prefix, day |-> timestamp.day, hhmm |-> timestamp.hhmm]

\* today_str in fname
NameHasDay(name, today) == name.day = today

\* Writing a file: a file of that name is replaced; its mtime is the time of
\* the write.  "by" records which code path wrote it.
WriteFile(dir, name, mtime, by) ==
    {f \in dir : f.name # name} \cup {[name |-> name, mtime |-> mtime, by |-> by]}

\* cutoff_time = datetime.now() - timedelta(days=3)
CutoffTime(now) == [day |-> now.day - RetentionDays, hhmm |-> now.hhmm]

\* Mutant of Cleanup: modified_time <= cutoff_time.
CleanupAtCutoff(dir, cutoff_time) == {f \in dir : Before(cutoff_time, f.mtime)}
\* The cleanup loop: a file whose mtime is before the cutoff is removed.
Cleanup(dir, cutoff_time) == {f \in dir : ~Before(f.mtime, cutoff_time)}

\* auto_backup_and_cleanup, with the three readings of datetime.now(): for
\* the timestamp of the file name, for today_str (the copy is made right
\* after it) and for the cutoff.
auto_backup_and_cleanup(dir, timestamp, today, now) ==
    LET backup_name == BackupName("trip_data_backup", timestamp)
        existing_today == \E f \in dir : NameHasDay(f.name, today.day)
        copied == IF ~existing_today
                     THEN WriteFile(dir, backup_name, today, "auto")
                     ELSE dir
    IN Cleanup(copied, CutoffTime(now))

\* The start of a run while the clock stands still.
AppStart ==
    /\ backup_dir' = auto_backup_and_cleanup(backup_dir, clock, clock, clock)
    /\ clock' = clock

\* ------------------------------------------------------------- initial
Init ==
    /\ trips = {}
    /\ sqlite_seq = 0
    /\ admin_logged_in = [s \in Sessions |-> FALSE]
    /\ vehicle_data = [s \in Sessions |-> NoRun]
    /\ download = NoDownload
    /\ backup_dir = {}
    /\ clock = [day |-> 1, hhmm |-> 0]

\* ------------------------------------------- the writes of a script run
\* Mutant of SubmitStartKm: the pair is read again right before the INSERT.
SubmitStartKmReread(vd, start_km, remark) ==
    /\ StartBranch(vd)
    /\ StartBranch(ReadVehicleData(trips, vd.vehicle_no, vd.trip_date))
    /\ sqlite_seq < MaxId
    /\ trips' = InsertTrip(trips, sqlite_seq + 1, clock, vd.vehicle_no,
                           vd.trip_date, start_km, remark)
    /\ sqlite_seq' = sqlite_seq + 1

\* "Submit Start KM" in a run that read vd: rendered in the start branch only.
SubmitStartKm(vd, start_km, remark) ==
    /\ StartBranch(vd)
    /\ sqlite_seq < MaxId
    /\ trips' = InsertTrip(trips, sqlite_seq + 1, clock, vd.vehicle_no,
                           vd.trip_date, start_km, remark)
    /\ sqlite_seq' = sqlite_seq + 1

\* "Submit End KM" in a run that read vd: rendered in the end branch only; the
\* number_input does not take a value below its min_value, and then nothing
\* is submitted.
SubmitEndKm(vd, end_km) ==
    /\ EndBranch(vd)
    /\ LET start_km_value == Iloc_1(vd).start_km.val
           row_id == Iloc_1(vd).id
       IN IF end_km >= EndKmMin(start_km_value)
             THEN trips' = UpdateEnd(trips, row_id, end_km,
                                     KmTravelled(end_km, start_km_value))
             ELSE trips' = trips
    /\ sqlite_seq' = sqlite_seq

\* --------------------------------------------- one session: whole runs
Idle(s) == vehicle_data[s] = NoRun

\* recordStart: a run with "Submit Start KM" pressed.
RecordStart(s, vehicle_no, trip_date, start_km, remark) ==
    /\ Idle(s)
    /\ SubmitStartKm(ReadVehicleData(trips, vehicle_no, trip_date), start_km, remark)
    /\ AppStart
    /\ UNCHANGED <<admin_logged_in, vehicle_data, download>>

\* recordEnd: a run with "Submit End KM" pressed.
RecordEnd(s, vehicle_no, trip_date, end_km) ==
    /\ Idle(s)
    /\ SubmitEndKm(ReadVehicleData(trips, vehicle_no, trip_date), end_km)
    /\ AppStart
    /\ UNCHANGED <<admin_logged_in, vehicle_data, download>>

\* Mutant of RecordEndTyped: the UPDATE writes the typed remark too.
RecordEndStoresRemark(s, vehicle_no, trip_date, remark, end_km) ==
    /\ Idle(s)
    /\ LET vd == ReadVehicleData(trips, vehicle_no, trip_date)
       IN /\ EndBranch(vd)
          /\ IF end_km >= EndKmMin(Iloc_1(vd).start_km.val)
                THEN trips' =
                       {IF r.id = Iloc_1(vd).id
                           THEN [r EXCEPT !.end_km = Int1(end_km),
                                          !.km_travelled =
                                             Int1(KmTravelled(end_km, Iloc_1(vd).start_km.val)),
                                          !.remark = remark]
                           ELSE r : r \in trips}
                ELSE trips' = trips
    /\ AppStart
    /\ UNCHANGED <<sqlite_seq, admin_logged_in, vehicle_data, download>>

\* recordEnd with the remark field of line 89 filled in: the end branch does
\* not read remark.
RecordEndTyped(s, vehicle_no, trip_date, remark, end_km) ==
    RecordEnd(s, vehicle_no, trip_date, end_km)

\* Admin "Update Entry".
AdminUpdate(s, edit_id, new_start, new_end, new_remark) ==
    /\ Idle(s)
    /\ admin_logged_in[s]
    /\ trips' = UpdateEntry(trips, edit_id, new_start, new_end,
                            NewKm(new_start, new_end), new_remark)
    /\ AppStart
    /\ UNCHANGED <<sqlite_seq, admin_logged_in, vehicle_data, download>>

\* Mutant of AdminDelete: the block is rendered without the check of line 139.
AdminDeleteUngated(s, edit_id) ==
    /\ Idle(s)
    /\ trips' = DeleteEntry(trips, edit_id)
    /\ AppStart
    /\ UNCHANGED <<sqlite_seq, admin_logged_in, vehicle_data, download>>

\* Admin "Delete Entry".
AdminDelete(s, edit_id) ==
    /\ Idle(s)
    /\ admin_logged_in[s]
    /\ trips' = DeleteEntry(trips, edit_id)
    /\ AppStart
    /\ UNCHANGED <<sqlite_seq, admin_logged_in, vehicle_data, download>>

\* "Login" with a typed password.
Login(s, admin_password) ==
    /\ Idle(s)
    /\ ~admin_logged_in[s]
    /\ admin_logged_in' =
          [admin_logged_in EXCEPT ![s] = (admin_password = AdminPassword)]
    /\ AppStart
    /\ UNCHANGED <<trips, sqlite_seq, vehicle_data, download>>

\* "Logout".
Logout(s) ==
    /\ Idle(s)
    /\ admin_logged_in[s]
    /\ admin_logged_in' = [admin_logged_in EXCEPT ![s] = FALSE]
    /\ AppStart
    /\ UNCHANGED <<trips, sqlite_seq, vehicle_data, download>>

\* The ids edit_id can name: number_input(min_value=1).
EditIds == 1..MaxId

SessionNext(s) ==
    \/ \E v \in VEHICLE_LIST, d \in TripDates, km \in StartKmInputs, r \in Remarks :
          RecordStart(s, v, d, km, r)
    \/ \E v \in VEHICLE_LIST, d \in TripDates, r \in Remarks, km \in EndKmInputs :
          RecordEndTyped(s, v, d, r, km)
    \/ \E i \in EditIds, a \in StartKmInputs, b \in EndKmInputs, r \in Remarks :
          AdminUpdate(s, i, a, b, r)
    \/ \E i \in EditIds : AdminDelete(s, i)
    \/ \E p \in Passwords : Login(s, p)
    \/ Logout(s)

Next == SessionNext("A")

Spec == Init /\ [][Next]_vars

\* ------------------------------------------------- Download Trip Data
\* The rows the export query selects, in table order.
ExportRows(T, vehicle_no, download_start, download_end) ==
    OrderByRowid({r \in T : /\ r.vehicle = vehicle_no
                            /\ download_start <= r.trip_date
                            /\ r.trip_date <= download_end})

\* pd.to_numeric(..., errors="coerce").fillna(0).astype(int) on one cell.
ToNumericInt(x) == IF IsNull(x) THEN 0 ELSE Val(x)

\* The header line of the CSV: the query's column names after "Sr. No".
CsvHeader ==
    <<"Sr. No", "Date", "Start Time", "Start KM", "End KM", "KM Travelled", "Remarks">>

\* Mutant of ToCsvLines: "Sr. No" taken from the stored id.
ToCsvLinesStoredId(rows) ==
    [i \in 1..Len(rows) |->
        [sr_no |-> rows[i].id,
         date |-> rows[i].trip_date,
         start_time |-> rows[i].datetime,
         start_km |-> ToNumericInt(rows[i].start_km),
         end_km |-> ToNumericInt(rows[i].end_km),
         km_travelled |-> ToNumericInt(rows[i].km_travelled),
         remarks |-> rows[i].remark]]

\* df_download.to_csv(index=False): one data line per row of the frame, with
\* "Sr. No" = range(1, len + 1) in front and the numeric columns coerced.
ToCsvLines(rows) ==
    [i \in 1..Len(rows) |->
        [sr_no |-> i,
         date |-> rows[i].trip_date,
         start_time |-> rows[i].datetime,
         start_km |-> ToNumericInt(rows[i].start_km),
         end_km |-> ToNumericInt(rows[i].end_km),
         km_travelled |-> ToNumericInt(rows[i].km_travelled),
         remarks |-> rows[i].remark]]

\* "Download Trip Data" pressed: the CSV of the selected vehicle and range, or
\* the "No data found" warning when the query returns no row.
Download(s, vehicle_no, download_start, download_end) ==
    /\ Idle(s)
    /\ LET df_download == ExportRows(trips, vehicle_no, download_start, download_end)
       IN download' =
             IF Len(df_download) # 0
                THEN [kind |-> "csv", header |-> CsvHeader,
                      lines |-> ToCsvLines(df_download)]
                ELSE [kind |-> "warning"]
    /\ AppStart
    /\ UNCHANGED <<trips, sqlite_seq, admin_logged_in, vehicle_data>>

\* One session that enters trips, deletes entries as admin and downloads.  The
\* export copies the remark as it is stored: these runs type the one remark.
NextExport ==
    \/ \E v \in VEHICLE_LIST, d \in TripDates, km \in StartKmInputs :
          RecordStart("A", v, d, km, "Sunday")
    \/ \E v \in VEHICLE_LIST, d \in TripDates, km \in EndKmInputs :
          RecordEnd("A", v, d, km)
    \/ \E i \in EditIds : AdminDelete("A", i)
    \/ \E p \in Passwords : Login("A", p)
    \/ Logout("A")
    \/ \E v \in VEHICLE_LIST, a \in TripDates, b \in TripDates : Download("A", v, a, b)

SpecExport == Init /\ [][NextExport]_vars

\* ------------------------------------- backups while the clock runs
\* The instant after t.
NextInstant(t) ==
    IF t.hhmm = 0 THEN [day |-> t.day, hhmm |-> 1] ELSE [day |-> t.day + 1, hhmm |-> 0]

\* What a later datetime.now() of the same run can read after one that read
\* t: the same minute, or, after 23:59, the minute 00:00 of the next day.
LaterReadings(t) ==
    {t} \cup (IF t.hhmm = 1 /\ t.day < MaxDay THEN {NextInstant(t)} ELSE {})

\* Time passes between two runs.
Tick ==
    /\ NextInstant(clock).day <= MaxDay
    /\ clock' = NextInstant(clock)
    /\ UNCHANGED <<trips, sqlite_seq, admin_logged_in, vehicle_data, download, backup_dir>>

\* A run with no button pressed: auto_backup_and_cleanup reads the clock for
\* the timestamp (line 37), for today_str (line 42) and for the cutoff
\* (line 49).
AppRun(s, today, now) ==
    /\ Idle(s)
    /\ today \in LaterReadings(clock) /\ now \in LaterReadings(today)
    /\ backup_dir' = auto_backup_and_cleanup(backup_dir, clock, today, now)
    /\ clock' = now
    /\ UNCHANGED <<trips, sqlite_seq, admin_logged_in, vehicle_data, download>>

\* Admin "Create Timestamped Backup": after the app start, the file named by
\* the timestamp of line 195 is written.
ManualBackup(s, today, now) ==
    /\ Idle(s)
    /\ admin_logged_in[s]
    /\ Cardinality(backup_dir) < MaxFiles
    /\ today \in LaterReadings(clock) /\ now \in LaterReadings(today)
    /\ backup_dir' =
          WriteFile(auto_backup_and_cleanup(backup_dir, clock, today, now),
                    BackupName("trip_data_backup", now), now, "manual")
    /\ clock' = now
    /\ UNCHANGED <<trips, sqlite_seq, admin_logged_in, vehicle_data, download>>

\* The trips table of an uploaded database file: an empty one.
UploadedTrips == {}

\* Admin upload of a .db file: after the app start, the upload is saved in
\* BACKUP_DIR under the timestamp of line 195 and replaces the database.
Upload(s, today, now) ==
    /\ Idle(s)
    /\ admin_logged_in[s]
    /\ Cardinality(backup_dir) < MaxFiles
    /\ today \in LaterReadings(clock) /\ now \in LaterReadings(today)
    /\ backup_dir' =
          WriteFile(auto_backup_and_cleanup(backup_dir, clock, today, now),
                    BackupName("uploaded_restore", now), now, "upload")
    /\ clock' = now
    /\ trips' = UploadedTrips
    /\ sqlite_seq' = 0
    /\ UNCHANGED <<admin_logged_in, vehicle_data, download>>

Instants == [day : 1..MaxDay, hhmm : Minutes]

\* One session: runs, admin login, manual backups and uploads over the days.
NextBackup ==
    \/ Tick
    \/ \E today \in Instants, now \in Instants : AppRun("A", today, now)
    \/ \E p \in Passwords : Login("A", p)
    \/ Logout("A")
    \/ \E today \in Instants, now \in Instants : ManualBackup("A", today, now)
    \/ \E today \in Instants, now \in Instants : Upload("A", today, now)

SpecBackup == Init /\ [][NextBackup]_vars

\* ------------------------- two sessions: runs interleave at read / write
\* A run starts: it reads vehicle_data for the selected vehicle and date.
RunQuery(s, vehicle_no, trip_date) ==
    /\ Idle(s)
    /\ vehicle_data' =
          [vehicle_data EXCEPT ![s] = ReadVehicleData(trips, vehicle_no, trip_date)]
    /\ AppStart
    /\ UNCHANGED <<trips, sqlite_seq, admin_logged_in, download>>

\* The run goes on with "Submit Start KM" pressed; st.rerun() ends it.
SubmitStart(s, start_km, remark) ==
    /\ ~Idle(s)
    /\ SubmitStartKm(vehicle_data[s], start_km, remark)
    /\ vehicle_data' = [vehicle_data EXCEPT ![s] = NoRun]
    /\ UNCHANGED <<admin_logged_in, download, backup_dir, clock>>

\* The run goes on with "Submit End KM" pressed; st.rerun() ends it.
SubmitEnd(s, end_km) ==
    /\ ~Idle(s)
    /\ SubmitEndKm(vehicle_data[s], end_km)
    /\ vehicle_data' = [vehicle_data EXCEPT ![s] = NoRun]
    /\ UNCHANGED <<admin_logged_in, download, backup_dir, clock>>

\* The run ends with no trip entry button pressed in it.
EndRun(s) ==
    /\ ~Idle(s)
    /\ vehicle_data' = [vehicle_data EXCEPT ![s] = NoRun]
    /\ UNCHANGED <<trips, sqlite_seq, admin_logged_in, download, backup_dir, clock>>

\* The remark plays no part in the interleaving: these runs leave it empty.
NextConc ==
    \E s \in Sessions :
        \/ \E v \in VEHICLE_LIST, d \in TripDates : RunQuery(s, v, d)
        \/ \E km \in StartKmInputs : SubmitStart(s, km, "")
        \/ \E km \in EndKmInputs : SubmitEnd(s, km)
        \/ EndRun(s)

SpecConc == Init /\ [][NextConc]_vars

\* ------------- two sessions: trip entry runs against an admin who updates
\* Session "A" enters trips, its runs split at the read; session "B" logs in
\* as admin and updates entries (its run does not use what it read).
NextConcAdmin ==
    \/ \E v \in VEHICLE_LIST, d \in TripDates : RunQuery("A", v, d)
    \/ \E km \in StartKmInputs : SubmitStart("A", km, "")
    \/ \E km \in EndKmInputs : SubmitEnd("A", km)
    \/ EndRun("A")
    \/ \E p \in Passwords : Login("B", p)
    \/ \E i \in EditIds, a \in StartKmInputs, b \in EndKmInputs :
          AdminUpdate("B", i, a, b, "")

SpecConcAdmin == Init /\ [][NextConcAdmin]_vars

\* ---------------------------------------------------- reading the table
IsOpen(r) == ~IsNull(r.start_km) /\ IsNull(r.end_km)
IsComplete(r) == ~IsNull(r.start_km) /\ ~IsNull(r.end_km)
RowsOf(T, v, d) == {r \in T : r.vehicle = v /\ r.trip_date = d}
OpenRowsOf(T, v, d) == {r \in RowsOf(T, v, d) : IsOpen(r)}
Ids(T) == {r.id : r \in T}
RowById(T, i) == CHOOSE r \in T : r.id = i
\* A complete record whose end does not exceed its start.
EndNotAboveStart(r) == IsComplete(r) /\ Val(r.end_km) <= Val(r.start_km)

\* ------------------------------------------------------------------ C1
AtMostOneOpen ==
    \A v \in VEHICLE_LIST, d \in TripDates : Cardinality(OpenRowsOf(trips, v, d)) <= 1

\* A step adds no record to a pair that has an open record.
NoInsertWhileOpen ==
    \A v \in VEHICLE_LIST, d \in TripDates :
        OpenRowsOf(trips, v, d) # {} => Ids(RowsOf(trips', v, d)) \subseteq Ids(RowsOf(trips, v, d))

\* C1: with the operations issued one at a time, every (vehicle, trip date)
\* pair has at most one open record in every reachable state, and no step
\* inserts a record for a pair that has an open record (a second start is not
\* accepted).
C1_OneOpenPerPair == []AtMostOneOpen /\ [][NoInsertWhileOpen]_vars

\* C1 witness: a pair has an open record and the id counter still allows an
\* insert, so a second start for the pair is being refused by the branch alone.
C1_Witness ==
    \E v \in VEHICLE_LIST, d \in TripDates :
        OpenRowsOf(trips, v, d) # {} /\ sqlite_seq < MaxId

\* ------------------------------------------------------------------ C2
\* C2: in every reachable state, a record with start and end set has
\* km_travelled = end_km - start_km, and a record with end unset has
\* km_travelled unset.
C2_DistanceIsEndMinusStart ==
    \A r \in trips :
        /\ IsComplete(r) =>
              ~IsNull(r.km_travelled)
              /\ Val(r.km_travelled) = Val(r.end_km) - Val(r.start_km)
        /\ IsNull(r.end_km) => IsNull(r.km_travelled)

\* C2 witness: a record with a positive distance beside a record the admin
\* rewrote to an end below its start.
C2_Witness ==
    /\ \E r \in trips : IsComplete(r) /\ Val(r.km_travelled) > 0
    /\ \E r \in trips : IsComplete(r) /\ Val(r.km_travelled) < 0

\* ------------------------------------------------------------------ C3
\* A vehicle whose records are all open (or that has none) has total 0.
OpenRecordsCountZero ==
    \A v \in VEHICLE_LIST :
        (\A r \in trips : r.vehicle = v => IsOpen(r)) => total_km(trips, v) = 0

\* C3: a recordEnd with end e above the start s of the pair's open record sets
\* that record's end to e and its distance to e - s, and the vehicle's total
\* afterwards is its total before plus e - s; open records count as zero, and
\* the total of a vehicle with no records is 0.
C3_RecordEndAddsDistance ==
    /\ []OpenRecordsCountZero
    /\ [][\A r \in trips, e \in EndKmInputs :
          (IsOpen(r) /\ e > Val(r.start_km)
                     /\ RecordEnd("A", r.vehicle, r.trip_date, e)) =>
              /\ r.id \in Ids(trips')
              /\ RowById(trips', r.id) =
                    [r EXCEPT !.end_km = Int1(e),
                              !.km_travelled = Int1(e - Val(r.start_km))]
              /\ total_km(trips', r.vehicle)
                    = total_km(trips, r.vehicle) + (e - Val(r.start_km))]_vars

\* C3 witness: a vehicle has two completed trips, the later one ended by a
\* distance of more than one, so the total before that end was not zero.
C3_Witness ==
    \E r \in trips, q \in trips :
        /\ r.vehicle = q.vehicle /\ r.id < q.id
        /\ IsComplete(r) /\ Val(r.km_travelled) > 0
        /\ IsComplete(q) /\ Val(q.km_travelled) > 1
        /\ Val(q.end_km) > Val(q.start_km)
        /\ total_km(trips, r.vehicle) = Val(r.km_travelled) + Val(q.km_travelled)

\* ------------------------------------------------------------------ C4
\* C4: a recordEnd attempt whose end is equal to or below the start of the
\* pair's open record changes nothing: the whole table is as before, so the
\* record's end and distance stay unset.
C4_RejectedEndChangesNothing ==
    [][\A r \in trips, e \in EndKmInputs :
          (IsOpen(r) /\ e <= Val(r.start_km)
                     /\ RecordEnd("A", r.vehicle, r.trip_date, e)) =>
              trips' = trips /\ IsOpen(RowById(trips', r.id))]_vars

\* C4 witness: an open record with start 1 (an end of 0 is below it) beside an
\* open record with start 0 (an end of 0 is equal to it).
C4_Witness ==
    \E r \in trips, q \in trips :
        IsOpen(r) /\ Val(r.start_km) = 1 /\ IsOpen(q) /\ Val(q.start_km) = 0

\* ------------------------------------------------------------------ C5
\* "Submit Start KM" is offered and takes any start and remark.
StartAccepted(v, d) ==
    \A km \in StartKmInputs, rm \in Remarks : ENABLED RecordStart("A", v, d, km, rm)

EndActionOn(r) ==
    \E e \in EndKmInputs :
        /\ RecordEnd("A", r.vehicle, r.trip_date, e)
        /\ trips' = UpdateEnd(trips, r.id, e, e - Val(r.start_km))
\* The step is an admin update / delete of id i.
AdminUpdateOn(i) ==
    \E a \in StartKmInputs, b \in EndKmInputs, rm \in Remarks :
        AdminUpdate("A", i, a, b, rm)
AdminDeleteOn(i) == AdminDelete("A", i)

\* No record has an end without a start.
EndOnlyWithStart == \A r \in trips : ~IsNull(r.end_km) => ~IsNull(r.start_km)

\* A record that appears was inserted open by a recordStart for its pair.
CreatedOpenByStart ==
    \A r \in trips' :
        r.id \notin Ids(trips) =>
            /\ IsOpen(r) /\ IsNull(r.km_travelled)
            /\ \E km \in StartKmInputs :
                  RecordStart("A", r.vehicle, r.trip_date, km, r.remark)

\* An open record that is complete after the step was written by a recordEnd.
CompletedByEndAction ==
    \A r \in trips :
        (IsOpen(r) /\ r.id \in Ids(trips') /\ IsComplete(RowById(trips', r.id)))
            => EndActionOn(r)

\* An open record that is complete after the step was written by a recordEnd
\* or by an admin update of its id.
CompletedByEndOrAdmin ==
    \A r \in trips :
        (IsOpen(r) /\ r.id \in Ids(trips') /\ IsComplete(RowById(trips', r.id)))
            => (EndActionOn(r) \/ AdminUpdateOn(r.id))

\* A complete record stays complete while it exists, and only an admin update
\* or an admin delete of its id changes or removes it.
CompleteChangedOnlyByAdmin ==
    \A r \in trips :
        IsComplete(r) =>
            /\ r.id \in Ids(trips') => IsComplete(RowById(trips', r.id))
            /\ r \notin trips' => (AdminUpdateOn(r.id) \/ AdminDeleteOn(r.id))

\* C7 as claimed: every record is created open by a recordStart, never has an
\* end without a start, becomes complete by a recordEnd on its id and by
\* nothing else, and once complete is changed only by the admin.
C7_CompleteOnlyByEndAction ==
    /\ []EndOnlyWithStart
    /\ [][CreatedOpenByStart /\ CompletedByEndAction /\ CompleteChangedOnlyByAdmin]_vars

\* C7 amended: with the operations issued one at a time, every record is
\* created open by a recordStart, never has an end without a start, becomes
\* complete by a recordEnd on its id or by an admin update of its id, and
\* once complete is changed only by an admin update or delete.
C7_Lifecycle ==
    /\ []EndOnlyWithStart
    /\ [][CreatedOpenByStart /\ CompletedByEndOrAdmin /\ CompleteChangedOnlyByAdmin]_vars

\* C7 witness: a record completed with a positive distance beside a record
\* that is still open.
C7_Witness ==
    \E r \in trips, q \in trips :
        IsComplete(r) /\ Val(r.km_travelled) > 0 /\ IsOpen(q)

\* ------------------------------------------------------------------ C9
\* An admin update of an existing id writes exactly its four inputs (a row
\* that the step leaves as it was already holds them).
AdminUpdateWritesInputs ==
    \A r \in trips \ trips', a \in StartKmInputs, b \in EndKmInputs, rm \in Remarks :
        AdminUpdate("A", r.id, a, b, rm) =>
            /\ r.id \in Ids(trips')
            /\ RowById(trips', r.id) =
                  [r EXCEPT !.start_km = Int1(a), !.end_km = Int1(b),
                            !.km_travelled = Int1(b - a), !.remark = rm]

\* A complete record with end <= start appears only by an admin update of it.
EndNotAboveStartOnlyByAdmin ==
    \A r \in trips' :
        (EndNotAboveStart(r) /\ r \notin trips) => AdminUpdateOn(r.id)

\* C9: an admin update of an existing record sets start, end, distance
\* = end - start and remark from its inputs with no range check, and a
\* complete record with end <= start comes into the table by an admin update
\* only, never by a recordStart or recordEnd.
C9_AdminBypassesRange ==
    [][AdminUpdateWritesInputs /\ EndNotAboveStartOnlyByAdmin]_vars

\* C9 witness: a complete record with end below start (a negative distance)
\* and one with end equal to start are in the table.
C9_Witness ==
    /\ \E r \in trips : EndNotAboveStart(r) /\ Val(r.km_travelled) < 0
    /\ \E r \in trips : EndNotAboveStart(r) /\ Val(r.km_travelled) = 0

\* ------------------------------------------------------------------ C6
\* The largest id among the rows of a frame.
TopId(vd) == CHOOSE i \in {vd.rows[k].id : k \in 1..Len(vd.rows)} :
                \A k \in 1..Len(vd.rows) : vd.rows[k].id <= i

\* C6 as claimed: whatever rows the table holds for a pair, a run that read
\* the pair classifies it from the row with the highest id (no record /
\* awaiting end / complete), and a recordEnd in the awaiting-end state writes
\* that highest-id row.
C6_ClassifiedFromHighestId ==
    \A s \in Sessions :
        ~Idle(s) =>
            LET vd == vehicle_data[s]
            IN /\ StartBranch(vd) <=> Empty(vd)
               /\ ~Empty(vd) =>
                     /\ Iloc_1(vd).id = TopId(vd)
                     /\ EndBranch(vd) <=> vd.rows[1].end_km.tag # "num"
                     /\ FullyRecordedBranch(vd) <=> vd.rows[1].end_km.tag = "num"

\* ----------------------------------------------------------------- C10
\* The pair a run of session s read.
OpenRowsOfRun(s) == OpenRowsOf(trips, vehicle_data[s].vehicle_no, vehicle_data[s].trip_date)

\* A run that read its pair as having no record is offered the start whatever
\* the table holds by now, an open record of the same pair included.
StaleStartStillAccepted ==
    \A s \in Sessions :
        (~Idle(s) /\ Empty(vehicle_data[s]) /\ sqlite_seq < MaxId) =>
            \A km \in StartKmInputs, rm \in Remarks : ENABLED SubmitStart(s, km, rm)

\* A start submitted by such a run adds one open record to its pair.
StartAddsOpenRecord ==
    \A s \in Sessions, km \in StartKmInputs, rm \in Remarks :
        SubmitStart(s, km, rm) =>
            Cardinality(OpenRowsOf(trips', vehicle_data[s].vehicle_no,
                                   vehicle_data[s].trip_date))
                = Cardinality(OpenRowsOfRun(s)) + 1

\* C10: with two sessions, a run that read a pair as having no record goes on
\* to insert although the other session has inserted an open record for the
\* pair in between (nothing re-checks the pair), and each such insert adds
\* an open record: two open records for one pair are reached.
C10_RaceNotPrevented == []StaleStartStillAccepted /\ [][StartAddsOpenRecord]_vars

\* C10 witness: the table holds two open records for the same pair.
C10_Witness ==
    \E v \in VEHICLE_LIST, d \in TripDates : Cardinality(OpenRowsOf(trips, v, d)) >= 2

\* ------------------------------------------------------------------ C8
\* The sum of the distance cells of the first n data lines.
RECURSIVE SumKm(_, _)
SumKm(lines, n) == IF n = 0 THEN 0 ELSE lines[n].km_travelled + SumKm(lines, n - 1)

\* C8 as claimed: every download, of an empty row set too, yields data lines
\* that end with one total row whose distance cell is the sum of the distance
\* cells of the exported rows, so n rows give n + 1 data lines.
C8_ExportEndsWithTotalRow ==
    [][\A v \in VEHICLE_LIST, a \in TripDates, b \in TripDates :
          Download("A", v, a, b) =>
              LET n == Len(ExportRows(trips, v, a, b))
              IN /\ download'.kind = "csv"
                 /\ Len(download'.lines) = n + 1
                 /\ download'.lines[n + 1].km_travelled = SumKm(download'.lines, n)]_vars

\* ----------------------------------------------------------------- C11
\* The "Sr. No" cells of an exported file are 1, 2, ..., n from the top.
SrNoCountsFromOne ==
    download.kind = "csv" =>
        /\ Len(download.lines) >= 1
        /\ \A i \in 1..Len(download.lines) : download.lines[i].sr_no = i

\* A download of a non-empty row set gives one line per selected row, in the
\* order of the rows, numbered by position.
DownloadNumbersRowsInOrder ==
    \A v \in VEHICLE_LIST, a \in TripDates, b \in TripDates :
        (ExportRows(trips, v, a, b) # <<>> /\ Download("A", v, a, b)) =>
            LET rows == ExportRows(trips, v, a, b)
            IN /\ download'.kind = "csv"
               /\ Len(download'.lines) = Len(rows)
               /\ \A i \in 1..Len(rows) :
                     /\ download'.lines[i].sr_no = i
                     /\ download'.lines[i].date = rows[i].trip_date
                     /\ download'.lines[i].start_km = Val(rows[i].start_km)

\* C11: for every non-empty exported row set of n rows the sequence-number
\* column holds 1, 2, ..., n in row order, whatever the stored ids are (ids
\* with gaps left by deletions included).
C11_SrNoIsPosition == []SrNoCountsFromOne /\ [][DownloadNumbersRowsInOrder]_vars

\* C11 witness: id 1 was deleted, the table holds only the record with id 2,
\* and the downloaded file is the one line of that record, numbered 1.
C11_Witness ==
    /\ download.kind = "csv"
    /\ \E r \in trips :
          /\ trips = {r} /\ r.id = 2
          /\ download.lines = ToCsvLines(<<r>>)
          /\ download.lines[1].sr_no = 1

\* ----------------------------------------------------------------- C12
\* On every reachable table: an update or delete of an id that is not in the
\* table gives the table back, and the same update or the same delete applied
\* to its own result gives that result back.
IdempotentById ==
    \A i \in EditIds :
        /\ i \notin Ids(trips) => DeleteEntry(trips, i) = trips
        /\ DeleteEntry(DeleteEntry(trips, i), i) = DeleteEntry(trips, i)
        /\ \A a \in StartKmInputs, b \in EndKmInputs, rm \in Remarks :
              LET once == UpdateEntry(trips, i, a, b, NewKm(a, b), rm)
              IN /\ i \notin Ids(trips) => once = trips
                 /\ UpdateEntry(once, i, a, b, NewKm(a, b), rm) = once

\* No admin step on a missing id changes the table, and the table an admin
\* step on record r leaves is a fixed point of that same step.
AdminStepIdempotent ==
    /\ \A i \in EditIds \ Ids(trips) :
          trips' # trips =>
              /\ ~AdminDelete("A", i)
              /\ \A a \in StartKmInputs, b \in EndKmInputs, rm \in Remarks :
                    ~AdminUpdate("A", i, a, b, rm)
    /\ \A r \in trips \ trips' :
          /\ AdminDelete("A", r.id) => DeleteEntry(trips', r.id) = trips'
          /\ \A a \in StartKmInputs, b \in EndKmInputs, rm \in Remarks :
                AdminUpdate("A", r.id, a, b, rm) =>
                    UpdateEntry(trips', r.id, a, b, NewKm(a, b), rm) = trips'

\* C12: admin update and admin delete are idempotent by id: on an id that is
\* not in the table they leave the whole table unchanged, and applying the
\* same update or delete twice in a row leaves the table of applying it once.
C12_AdminIdempotentById == []IdempotentById /\ [][AdminStepIdempotent]_vars

\* C12 witness: the admin is logged in, id 1 has been deleted (an id that is
\* not in the table) and id 2 carries an admin update (end below start).
C12_Witness ==
    /\ admin_logged_in["A"]
    /\ sqlite_seq = 2
    /\ Ids(trips) = {2}
    /\ \E r \in trips : IsComplete(r) /\ Val(r.km_travelled) < 0

\* ----------------------------------------------------------------- C13
\* The step does what only the admin block does: it removes a record, or it
\* rewrites the start or the remark of a record, or it changes a complete
\* record.
AdminEffect ==
    \E r \in trips :
        \/ r.id \notin Ids(trips')
        \/ /\ r.id \in Ids(trips')
           /\ LET q == RowById(trips', r.id)
              IN \/ q.start_km # r.start_km
                 \/ q.remark # r.remark
                 \/ (IsComplete(r) /\ q # r)

\* While the flag is false neither Update Entry nor Delete Entry can be
\* pressed, whatever id and values are typed.
NoAdminWhileLoggedOut ==
    ~admin_logged_in["A"] =>
        \A i \in EditIds :
            /\ ~ENABLED AdminDelete("A", i)
            /\ \A a \in StartKmInputs, b \in EndKmInputs, rm \in Remarks :
                  ~ENABLED AdminUpdate("A", i, a, b, rm)

\* The flag is raised by a Login with the admin password only, lowered by a
\* Logout only, and the table is edited only while the flag is true.
FlagGatesAdmin ==
    /\ AdminEffect => admin_logged_in["A"]
    /\ (~admin_logged_in["A"] /\ admin_logged_in'["A"]) =>
           (Login("A", AdminPassword) /\ trips' = trips)
    /\ (admin_logged_in["A"] /\ ~admin_logged_in'["A"]) =>
           (Logout("A") /\ trips' = trips)
    /\ \A p \in Passwords \ {AdminPassword} :
           (~admin_logged_in["A"] /\ Login("A", p)) => ~admin_logged_in'["A"]

\* C13: the flag starts false; admin update and delete are executed only in
\* a state where the flag is true; the flag becomes true only by a Login with
\* the correct password and false again by Logout, after which update and
\* delete are not possible until the next successful Login.
C13_AdminOnlyWhileLoggedIn ==
    /\ ~admin_logged_in["A"]
    /\ []NoAdminWhileLoggedOut
    /\ [][FlagGatesAdmin]_vars

\* C13 witness: after a Logout (the flag is false again) the table shows the
\* admin's work: id 1 deleted and an edited record with end below start.
C13_Witness ==
    /\ ~admin_logged_in["A"]
    /\ 1 \notin Ids(trips)
    /\ \E r \in trips : EndNotAboveStart(r) /\ Val(r.km_travelled) < 0

\* ----------------------------------------------------------------- C14
\* The files in the directory that the automatic backup wrote on day d.
AutoBackupsOfDay(d) == {f \in backup_dir : f.by = "auto" /\ f.mtime.day = d}

\* C14 as claimed: over any sequence of runs, manual backups and uploads, at
\* most one automatic backup file is created per calendar day.
C14_OneAutoBackupPerDay ==
    \A d \in 1..MaxDay : Cardinality(AutoBackupsOfDay(d)) <= 1

\* ----------------------------------------------------------------- C15
\* After a step whose cleanup read the clock as now: no file of the directory
\* was last modified before now - 3 days, and every file that was there and
\* was modified at or after now - 3 days is still there.
RetentionHolds(now) ==
    /\ \A g \in backup_dir' : ~Before(g.mtime, CutoffTime(now))
    /\ \A f \in backup_dir :
          ~Before(f.mtime, CutoffTime(now)) => \E g \in backup_dir' : g.name = f.name

\* Every run, with or without a button pressed, leaves the directory so.
RetentionAfterEveryRun ==
    /\ \A today \in LaterReadings(clock) :
          (\/ AppRun("A", today, clock')
           \/ ManualBackup("A", today, clock')
           \/ Upload("A", today, clock')) => RetentionHolds(clock')
    /\ ((\E p \in Passwords : Login("A", p)) \/ Logout("A")) => RetentionHolds(clock)

\* C15: immediately after every run of the automatic backup and cleanup the
\* backup directory holds no file last modified more than 3 days before that
\* run, and no file modified within the last 3 days has been removed by it.
C15_RetentionThreeDays == [][RetentionAfterEveryRun]_vars

\* C15 witness: the upload saved in the last minute of day 1 is exactly 3 days
\* old and still there, while the backup file the first run of day 1 wrote
\* (in the first minute of the day, before the admin could log in and upload)
\* is gone: the cleanup has removed it.
C15_Witness ==
    /\ \E f \in backup_dir :
          /\ f.name.prefix = "uploaded_restore"
          /\ f.mtime = [day |-> 1, hhmm |-> 1]
          /\ f.mtime = CutoffTime(clock)
    /\ ~\E f \in backup_dir : f.name.prefix = "trip_data_backup" /\ f.name.day = 1

\* ----------------------------------------------------------------- C16
\* A pair holds at most one record.
OneRecordPerPair ==
    \A v \in VEHICLE_LIST, d \in TripDates : Cardinality(RowsOf(trips, v, d)) <= 1

\* No step adds a record to a pair that has one (no start is taken for it),
\* and a pair that had a record is without one only after the admin delete
\* of that record.
PairFreedOnlyByDelete ==
    /\ \A r \in trips' :
          r.id \notin Ids(trips) => RowsOf(trips, r.vehicle, r.trip_date) = {}
    /\ \A r \in trips :
          RowsOf(trips', r.vehicle, r.trip_date) = {} =>
              (admin_logged_in["A"] /\ trips' = DeleteEntry(trips, r.id))

\* C16: with recordStart, recordEnd, admin update and admin delete issued one
\* at a time from an empty table, every (vehicle, trip date) pair has at most
\* one record of any kind, open or complete: once a pair has a record no
\* start for it is possible until an admin delete removes the record.
C16_OneRecordPerPair == []OneRecordPerPair /\ [][PairFreedOnlyByDelete]_vars

\* C16 witness: a pair holds one record, completed by an admin update (its
\* end is not above its start); the id counter still allows an insert, and
\* the pair is being refused a start while a pair without a record is not.
C16_Witness ==
    /\ sqlite_seq < MaxId
    /\ \E r \in trips :
          /\ EndNotAboveStart(r)
          /\ RowsOf(trips, r.vehicle, r.trip_date) = {r}
          /\ ~ENABLED RecordStart("A", r.vehicle, r.trip_date, 0, "")
    /\ \E v \in VEHICLE_LIST, d \in TripDates :
          RowsOf(trips, v, d) = {} /\ ENABLED RecordStart("A", v, d, 0, "")

\* ----------------------------------------------------------------- C17
\* A recordEnd on the pair of the open record r that writes r (r is not in
\* the table afterwards as it was), with whatever remark typed, leaves the ids and the number of records as they were, every other record
\* as it was, and of r everything but end_km and km_travelled: id, datetime,
\* vehicle, trip_date, start_km and remark.
RecordEndFrame ==
    \A r \in trips \ trips', e \in EndKmInputs, rm \in Remarks :
        (IsOpen(r) /\ RecordEndTyped("A", r.vehicle, r.trip_date, rm, e)) =>
            /\ Ids(trips') = Ids(trips)
            /\ Cardinality(trips') = Cardinality(trips)
            /\ sqlite_seq' = sqlite_seq
            /\ \A q \in trips : q.id # r.id => q \in trips'
            /\ LET n == RowById(trips', r.id)
               IN /\ n.datetime = r.datetime
                  /\ n.vehicle = r.vehicle
                  /\ n.trip_date = r.trip_date
                  /\ n.start_km = r.start_km
                  /\ n.remark = r.remark
                  /\ n = [r EXCEPT !.end_km = n.end_km, !.km_travelled = n.km_travelled]

\* C17: recordEnd changes only the end odometer and the distance of the one
\* record it targets; that record's id, timestamp, vehicle, trip date, start
\* odometer and remark (a remark typed at end time is not stored), all other
\* records and the number of records are unchanged.
C17_RecordEndFrame == [][RecordEndFrame]_vars

\* C17 witness: a record entered with the remark "Sunday" has been ended (its
\* end is above its start) and still carries that remark and its timestamp,
\* beside another record that is still open.
C17_Witness ==
    \E r \in trips, q \in trips :
        /\ IsComplete(r) /\ Val(r.end_km) > Val(r.start_km)
        /\ r.remark = "Sunday" /\ r.datetime = clock
        /\ IsOpen(q) /\ q.id # r.id

\* ----------------------------------------------------------------- C18
\* C18 as claimed: with a recordEnd of one session (the read of the record's
\* start, later the write of end and distance) interleaved in every way with
\* another session's admin update of the same record, every complete record
\* has km_travelled = end_km - start_km in every state.
C18_DistancePreservedUnderRace ==
    \A r \in trips :
        (~IsNull(r.start_km) /\ ~IsNull(r.end_km) /\ ~IsNull(r.km_travelled)) =>
            Val(r.km_travelled) + Val(r.start_km) = Val(r.end_km)

====
